---- MODULE Spec2Model ----
(***************************************************************************)
(* A model of the libmongo wrapper: the MongoDb handle (driver handle,     *)
(* lock-guarded maxTimeMS) in three driver generations,                    *)
(*   "mgo"   - src/lib.go            (globalsign/mgo, session copies)      *)
(*   "qmgo"  - src/unnamed/part_001  (qiniu/qmgo, context timeouts)        *)
(*   "mongo" - src/unnamed/part_003  (mongo-driver, Ping probe)            *)
(* The driver is the environment: a call to it is recorded in the trace of *)
(* the operation that issued it, and its outcome is chosen by the          *)
(* environment among the outcomes the driver's interface allows.           *)
(* Durations are in milliseconds.                                          *)
(***************************************************************************)
EXTENDS Integers, Sequences, FiniteSets, TLC

VARIABLES
    gen,        \* which generation of the wrapper the handle belongs to
    client,     \* db.sess / db.client: "nil", "live" (non-nil, open), "closed" (non-nil, closed)
    serverUp,   \* whether the server answers (a dial, a ping, a query)
    maxTimeMS,  \* db.maxTimeMS
    dbName,     \* db.database / db.dbName ("" where the handle has no such field or it was never set)
    life,       \* ghost: "never" | "connected" | "disconnected" (the handle's real lifecycle)
    last,       \* the last completed call: its name, result and the driver calls it issued
    pc,         \* per goroutine: the step it is at (concurrent specification)
    cur,        \* per goroutine: the duration in hand (the argument of its SetMaxTimeMS, or the maxTimeMS it read)
    holder,     \* the goroutine holding RWMutex for writing, or 0
    acq,        \* ghost: the argument of the SetMaxTimeMS call that acquired the lock last, and how many did
    raced,      \* ghost: some read of maxTimeMS happened while a writer held the lock
    store,      \* the documents of the collection on the server
    out,        \* what the last read decoded into the caller's v
    copies,     \* lib.go: the session copies the library made and has not closed
    lent,       \* lib.go: the sessions SessCopy returned that were not yet passed to SessClose
    probed      \* an operation passed its connectivity check and has yet to call the driver

vars == <<gen, client, serverUp, maxTimeMS, dbName, life, last, pc, cur, holder, acq, raced, store, out, copies, lent, probed>>

seqVars  == <<gen, client, serverUp, maxTimeMS, dbName, life, last>>
seqVarsButLast == <<gen, client, serverUp, maxTimeMS, dbName, life>>
concVars == <<pc, cur, holder, acq, raced>>
dataVars == <<store, out>>
sessVars == <<copies, lent>>

----------------------------------------------------------------------------
(* Bounds *)
MaxLen   == 2      \* longest id / value / document list handed to an operation
NProcs   == 2      \* goroutines of the concurrent specification
MaxCalls == 2      \* lock acquisitions counted (the count saturates)

(* Program constants *)
mongoConnectionTimeout == 15000
mongoQueryTimeout      == 30000
Second                 == 1000

errorNotConnected == "DB is not connected"
errorNotValid     == "Query is not valid"

Gens     == {"mgo", "qmgo", "mongo"}
Vals     == {1, 2}                       \* ids, values, keys
Timeouts == {500, 5000, 60000}           \* arguments of SetMaxTimeMS / ConnectWithTimeout
Procs    == 1..NProcs
SetArgs  == {5000, 60000}                \* arguments of concurrent SetMaxTimeMS calls

RECURSIVE SeqsUpTo(_, _)
SeqsUpTo(S, n) ==
    IF n = 0 THEN {<<>>}
    ELSE LET shorter == SeqsUpTo(S, n - 1)
         IN  shorter \cup {Append(s, x) : s \in {t \in shorter : Len(t) = n - 1}, x \in S}

(* One call into the driver: the function, its two arguments (0 when it    *)
(* has none), the time bound it runs under (0: none) and the error the     *)
(* driver returned.                                                        *)
DrvCallE(fn, a, b, t, err) == [fn |-> fn, a |-> a, b |-> b, t |-> t, err |-> err]

DrvCall(fn, a, b, t) == DrvCallE(fn, a, b, t, "nil")

(* A completed call of the wrapper: its name, its arguments, what it       *)
(* returned and the driver calls it issued, in order.                      *)
DoneIn(op, in, ret, calls) == [op |-> op, in |-> in, ret |-> ret, calls |-> calls]

Done(op, ret, calls) == DoneIn(op, <<>>, ret, calls)

\* A completed call that returns a value rather than an error.
Returned(op, in, val) ==
    [op |-> op, in |-> in, ret |-> "value", calls |-> <<>>, val |-> val]

Fresh == Done("GetDb", "nil", <<>>)

\* The session copies a call made less the copies it closed.
NetCopies(calls) ==
    Len(SelectSeq(calls, LAMBDA c : c.fn = "Copy"))
    - Len(SelectSeq(calls, LAMBDA c : c.fn = "CopyClose"))

\* The open copies after a completed call.
TrackCopies == copies' = copies + NetCopies(last'.calls)

----------------------------------------------------------------------------
(* The driver, as far as the wrapper can see it *)

\* A dial (mgo.DialWithTimeout, qmgo.NewClient, mongo.Connect) may fail even
\* with the server up (a bad dsn); it cannot succeed with the server down.
DialOutcomes == IF serverUp THEN {TRUE, FALSE} ELSE {FALSE}

\* The error a query, write or index call returns.
CallOutcomes == IF client = "live" /\ serverUp THEN {"nil", "DriverError"} ELSE {"DriverError"}

\* The error closing the driver handle returns.
CloseOutcomes == {"nil", "DriverError"}

\* client.Ping succeeds exactly on an open handle whose server answers.
PingOK == client = "live" /\ serverUp

----------------------------------------------------------------------------
(* options.go: the connection options *)

\* The configuration functions a caller can hand to Combine. A function of
\* type Options gets a copy of the MongoOptions struct: what it assigns to
\* dbName or readPref is in the copy it returns; what it sets through the
\* options pointer lands in the one ClientOptions all copies point to.
OptionFns ==
    [field : {"dbName"}, v : {"prod"}]
    \cup [field : {"readPref"}, v : {"primary"}]
    \cup [field : {"options.readPref"}, v : {"primary"}]
    \cup [field : {"options.uri"}, v : {"mongodb://h"}]

\* options.go:24-30.
newOptions ==
    [ options  |-> [readPref |-> "secondary", uri |-> ""],
      dbName   |-> "test",
      readPref |-> "secondary" ]

\* options.go:51-53: opt(options), on the copy it was passed.
apply(opt, m) ==
    CASE opt.field = "dbName"           -> [m EXCEPT !.dbName = opt.v]
      [] opt.field = "readPref"         -> [m EXCEPT !.readPref = opt.v]
      [] opt.field = "options.readPref" -> [m EXCEPT !.options.readPref = opt.v]
      [] opt.field = "options.uri"      -> [m EXCEPT !.options.uri = opt.v]

\* options.go:17: "opts[i].apply(clientOpts)": the value apply returns is
\* dropped, so clientOpts keeps its own fields; only the ClientOptions both
\* copies point to has changed.
CombineStep(clientOpts, opt) ==
    [clientOpts EXCEPT !.options = apply(opt, clientOpts).options]

\* options.go:14-20: from the last option down to the first.
RECURSIVE CombineFrom(_, _, _)
CombineFrom(clientOpts, opts, i) ==
    IF i = 0 THEN clientOpts
    ELSE CombineFrom(CombineStep(clientOpts, opts[i]), opts, i - 1)

CombineOf(opts) == CombineFrom(newOptions, opts, Len(opts))

\* options.go:43-45.
DBName(m) == m.dbName

----------------------------------------------------------------------------
(* Connection lifecycle *)

Alive == last.ret # "panic"

Panic(op, calls) == Done(op, "panic", calls)

\* lib.go:45 and part_001:73 test the handle for non-nil; part_003:67 pings
\* and returns "Ping(...) != nil".
IsConnected == IF gen = "mongo" THEN ~PingOK ELSE client # "nil"

\* part_003:67 calls db.client.Ping on the handle it was given: with no client
\* the call dereferences nil.
ProbePanics == gen = "mongo" /\ client = "nil"

\* The driver calls the connectivity check itself issues.
GuardCalls ==
    IF gen = "mongo"
    THEN <<DrvCallE("Ping", 0, 0, 0, IF PingOK THEN "nil" ELSE "DriverError")>>
    ELSE <<>>

IsConnectedCall ==
    /\ Alive
    /\ last' = IF ProbePanics THEN Panic("IsConnected", <<>>)
               ELSE Done("IsConnected", IF IsConnected THEN "true" ELSE "false", GuardCalls)
    /\ UNCHANGED <<gen, dbName, client, serverUp, maxTimeMS, life, concVars, dataVars, lent, probed>>
    /\ TrackCopies

\* ConnectWithTimeout replaces a timeout below one second by the default.
DialTimeout(timeout) == IF timeout < Second THEN mongoConnectionTimeout ELSE timeout

\* lib.go Connect / ConnectWithTimeout: dial, then SetSafe on the session the
\* dial returned (nil when it failed), then return the dial's error.
mgoDial(op, t) ==
    \E ok \in DialOutcomes :
        /\ client' = IF ok THEN "live" ELSE "nil"
        /\ life' = IF ok THEN "connected" ELSE life
        /\ last' = IF ok THEN Done(op, "nil", <<DrvCall("Dial", 0, 0, t), DrvCall("SetSafe", 0, 0, 0)>>)
                   ELSE Panic(op, <<DrvCallE("Dial", 0, 0, t, "DriverError")>>)

\* part_003 ConnectWithTimeout: mongo.Connect, return its error, else
\* client.Connect once more and return that call's error.
\* NewConnection (keep = FALSE) returns no handle at all when either call
\* fails; ConnectWithTimeout keeps the client the first call returned.
mongoDial(op, t, keep) ==
    \E ok \in DialOutcomes :
        IF ~ok
        THEN /\ client' = "nil"
             /\ life' = life
             /\ last' = Done(op, "DriverError", <<DrvCallE("mongo.Connect", t, 0, 0, "DriverError")>>)
        ELSE \E err \in {"nil", "DriverError"} :
             /\ client' = IF err = "nil" \/ keep THEN "live" ELSE "nil"
             /\ life' = IF err = "nil" \/ keep THEN "connected" ELSE life
             /\ last' = Done(op, err, <<DrvCall("mongo.Connect", t, 0, 0), DrvCallE("Connect", 0, 0, 0, err)>>)

\* part_001 NewConnection / NewConnectionWithTimeout: qmgo.NewClient under a
\* context of ctxT, the client and the error returned as they come.
qmgoDial(op, database, ctxT, connT) ==
    \E ok \in DialOutcomes :
        /\ client' = IF ok THEN "live" ELSE "nil"
        /\ life' = IF ok THEN "connected" ELSE life
        /\ last' = LET err == IF ok THEN "nil" ELSE "DriverError"
                   IN  DoneIn(op, <<database>>, err, <<DrvCallE("NewClient", connT, 0, ctxT, err)>>)

Connect ==
    /\ Alive
    /\ gen \in {"mgo", "mongo"}
    /\ IF gen = "mgo" THEN mgoDial("Connect", mongoConnectionTimeout)
       ELSE \* part_003:71: db.client.Connect(db.ctx) on whatever client the handle holds
            IF client = "nil"
            THEN /\ last' = Panic("Connect", <<>>)
                 /\ UNCHANGED <<client, life>>
            ELSE \E err \in CallOutcomes :
                    /\ last' = Done("Connect", err, <<DrvCallE("Connect", 0, 0, 0, err)>>)
                    /\ client' = IF err = "nil" THEN "live" ELSE client
                    /\ life' = IF err = "nil" THEN "connected" ELSE life
    /\ UNCHANGED <<gen, dbName, serverUp, maxTimeMS, concVars, dataVars, lent, probed>>
    /\ TrackCopies

ConnectWithTimeout ==
    /\ Alive
    /\ gen \in {"mgo", "mongo"}
    /\ \E timeout \in Timeouts :
          IF gen = "mgo" THEN mgoDial("ConnectWithTimeout", DialTimeout(timeout))
          ELSE mongoDial("ConnectWithTimeout", DialTimeout(timeout), TRUE)
    /\ UNCHANGED <<gen, dbName, serverUp, maxTimeMS, concVars, dataVars, lent, probed>>
    /\ TrackCopies

\* The database names a caller hands to the constructors of part_001.
Databases == {"", "prod"}

\* part_001:40-42 and 57-59: if database == "" { database = "test" }.
DefaultDatabase(database) == IF database = "" THEN "test" ELSE database

\* part_003:37: the options NewConnection combines (the dsn among them).
ConnectionOptions == <<[field |-> "options.uri", v |-> "mongodb://h"]>>

\* The constructors build a new handle: they act instead of GetDb. lib.go
\* has no database field; part_001 stores the database passed, "test" for
\* an empty one; part_003:49 NewConnection stores the DBName of its options
\* and part_003:60-63 NewConnectionWithTimeout leaves dbName unset.
NewConnection ==
    /\ last = Fresh
    /\ maxTimeMS' = mongoQueryTimeout
    /\ CASE gen = "mgo"   -> /\ mgoDial("NewConnection", mongoConnectionTimeout)
                             /\ dbName' = dbName
         [] gen = "qmgo"  -> \E database \in Databases :
                                /\ qmgoDial("NewConnection", database, 20 * Second, 0)
                                /\ dbName' = DefaultDatabase(database)
         [] gen = "mongo" -> /\ mongoDial("NewConnection", mongoQueryTimeout, FALSE)
                             /\ dbName' = IF client' = "live"
                                          THEN DBName(CombineOf(ConnectionOptions))
                                          ELSE dbName
    /\ UNCHANGED <<gen, serverUp, concVars, dataVars, lent, probed>>
    /\ TrackCopies

NewConnectionWithTimeout ==
    /\ last = Fresh
    /\ maxTimeMS' = mongoQueryTimeout
    /\ \E timeout \in Timeouts :
          CASE gen = "mgo"   -> /\ mgoDial("NewConnectionWithTimeout", DialTimeout(timeout))
                                /\ dbName' = dbName
            [] gen = "qmgo"  -> \E database \in Databases :
                                   /\ qmgoDial("NewConnectionWithTimeout", database, timeout, timeout)
                                   /\ dbName' = DefaultDatabase(database)
            [] gen = "mongo" -> /\ mongoDial("NewConnectionWithTimeout", DialTimeout(timeout), TRUE)
                                /\ dbName' = ""
    /\ UNCHANGED <<gen, serverUp, concVars, dataVars, lent, probed>>
    /\ TrackCopies

\* Disconnect closes the driver handle when IsConnected says so; the handle
\* field itself is left as it is. part_001:85 panics on the close's error.
Disconnect ==
    /\ Alive
    /\ IF ProbePanics
       THEN /\ last' = Panic("Disconnect", <<>>)
            /\ UNCHANGED <<client, life>>
       ELSE IF ~IsConnected
       THEN /\ last' = Done("Disconnect", "nil", GuardCalls)
            /\ UNCHANGED <<client, life>>
       ELSE \E err \in CloseOutcomes :
               /\ last' = IF gen = "qmgo" /\ err # "nil"
                          THEN Panic("Disconnect", GuardCalls \o <<DrvCallE("Close", 0, 0, 0, err)>>)
                          ELSE Done("Disconnect", "nil", GuardCalls \o <<DrvCallE("Close", 0, 0, 0, err)>>)
               /\ client' = "closed"
               /\ life' = IF life = "connected" THEN "disconnected" ELSE life
    /\ UNCHANGED <<gen, dbName, serverUp, maxTimeMS, concVars, dataVars, lent, probed>>
    /\ TrackCopies

\* SetMaxTimeMS as one step (the sequential specification).
SetMaxTimeMS ==
    /\ Alive
    /\ \E d \in Timeouts :
          /\ maxTimeMS' = d
          /\ last' = Done("SetMaxTimeMS", "nil", <<>>)
    /\ UNCHANGED <<gen, dbName, client, serverUp, life, concVars, dataVars, lent, probed>>
    /\ TrackCopies

\* The environment: the server goes away or comes back.
ServerFlip ==
    /\ Alive
    /\ serverUp' = ~serverUp
    /\ UNCHANGED <<gen, dbName, client, maxTimeMS, life, last, concVars, dataVars, sessVars, probed>>

----------------------------------------------------------------------------
(* CRUD, aggregate and index operations *)

\* The operations that are one guarded pass-through: the connectivity check,
\* one driver call, its error returned. Each maps to the driver call it makes.
mgoOps ==
    [ CreateIndexKey |-> "EnsureIndexKey", Insert |-> "Insert",
      InsertWithCheckIsDup |-> "Insert", InsertBulk |-> "Bulk.Run",
      Find |-> "Find.All", Pipe |-> "Pipe.All", PipeWithMaxTime |-> "Pipe.All",
      PipeOne |-> "Pipe.One", FindAll |-> "Find.All", FindWithQuery |-> "Find.One",
      FindWithQuerySortOne |-> "Find.One", FindWithQuerySortAll |-> "Find.All",
      FindWithQuerySortLimitAll |-> "Find.All", FindWithQueryOne |-> "Find.One",
      FindWithQueryAll |-> "Find.All", FindWithQuerySortLimitOffsetAll |-> "Find.All",
      Count |-> "Find.Count", Update |-> "Update", UpdateWithQuery |-> "Update",
      UpdateWithQueryAll |-> "UpdateAll", Upsert |-> "Upsert",
      UpsertWithQuery |-> "Upsert", Remove |-> "RemoveAll", RemoveAll |-> "RemoveAll",
      RemoveWithQuery |-> "RemoveAll", Run |-> "Run",
      CollectionNames |-> "CollectionNames" ]

qmgoOps ==
    [ Insert |-> "InsertOne", InsertMany |-> "InsertMany", InsertBulk |-> "Bulk.Run",
      Find |-> "Find.All", Pipe |-> "Aggregate.All", PipeOne |-> "Aggregate.One",
      FindAll |-> "Find.All", FindWithSelectAll |-> "Find.All",
      FindWithQuery |-> "Find.One", FindWithQuerySortOne |-> "Find.One",
      FindWithQuerySortAll |-> "Find.All", FindWithQuerySortLimitAll |-> "Find.All",
      FindWithQueryOne |-> "Find.One", FindWithQueryAll |-> "Find.All",
      FindWithQuerySortLimitOffsetAll |-> "Find.All", Count |-> "Find.Count",
      Update |-> "UpdateOne", UpdateWithQuery |-> "UpdateAll",
      UpdateWithQueryAll |-> "UpdateAll", Upsert |-> "Upsert",
      UpsertWithQuery |-> "Upsert", Remove |-> "RemoveAll", RemoveAll |-> "RemoveAll",
      RemoveWithQuery |-> "RemoveAll" ]

\* part_003: the operations that make one call and open no cursor.
mongoOps ==
    [ InsertBulk |-> "BulkWrite", Count |-> "CountDocuments", Update |-> "UpdateByID",
      UpdateWithQuery |-> "UpdateOne", UpdateWithQueryAll |-> "UpdateMany",
      Upsert |-> "UpdateByID", UpsertWithQuery |-> "UpdateOne", Remove |-> "DeleteOne",
      RemoveAll |-> "DeleteMany", RemoveWithQuery |-> "DeleteMany" ]

OpTable == CASE gen = "mgo" -> mgoOps [] gen = "qmgo" -> qmgoOps [] gen = "mongo" -> mongoOps

\* RemoveAll starts with the driver call in lib.go:473 and part_001:403.
Unguarded == IF gen \in {"mgo", "qmgo"} THEN {"RemoveAll"} ELSE {}

\* The operations of lib.go that hand db.maxTimeMS to SetMaxTime.
mgoTimed ==
    { "Find", "Pipe", "PipeOne", "FindAll", "FindWithQuery", "FindWithQuerySortOne",
      "FindWithQuerySortAll", "FindWithQuerySortLimitAll", "FindWithQueryOne",
      "FindWithQueryAll", "FindWithQuerySortLimitOffsetAll", "Count" }

\* The time bound an operation's driver call runs under (0: none).
TimeOf(op) ==
    CASE gen = "mgo"   -> IF op \in mgoTimed THEN maxTimeMS ELSE 0
      [] gen = "qmgo"  -> IF op = "Remove" THEN 0 ELSE maxTimeMS
      [] gen = "mongo" -> IF op = "Count" THEN maxTimeMS ELSE 0

\* A variant of the session bracket that leaves the copy open.
InSessionNoClose(calls) ==
    IF gen = "mgo" THEN <<DrvCall("Copy", 0, 0, 0)>> \o calls ELSE calls

\* lib.go runs every operation on a copy of the session, closed on return.
InSession(calls) ==
    IF gen = "mgo"
    THEN <<DrvCall("Copy", 0, 0, 0)>> \o calls \o <<DrvCall("CopyClose", 0, 0, 0)>>
    ELSE calls

Guarded(op) == op \notin Unguarded

\* What an operation returns when the connectivity check fails.
NotConnected(op) == Done(op, errorNotConnected, GuardCalls)

SimpleOp ==
    /\ Alive
    /\ \E op \in DOMAIN OpTable :
          IF Guarded(op) /\ ProbePanics THEN last' = Panic(op, <<>>)
          ELSE IF Guarded(op) /\ ~IsConnected THEN last' = NotConnected(op)
          ELSE IF client = "nil" THEN last' = Panic(op, <<>>)
          ELSE \E err \in CallOutcomes :
                  last' = Done(op, err,
                               (IF Guarded(op) THEN GuardCalls ELSE <<>>)
                               \o InSession(<<DrvCallE(OpTable[op], 0, 0, TimeOf(op), err)>>))
    /\ UNCHANGED <<gen, dbName, client, serverUp, maxTimeMS, life, concVars, dataVars, lent, probed>>
    /\ TrackCopies

\* The error of a read of one document: it may also find nothing.
OneOutcomes == CallOutcomes \cup (IF client = "live" /\ serverUp THEN {"NotFound"} ELSE {})

\* FindByID returns a bool: "the error is not the not-found sentinel" in
\* lib.go:232 and part_001:179; part_003:273 also returns false when decoding
\* the result fails, which it does when the result carries an error.
FindByIDRet(err) ==
    IF gen = "mongo" THEN (IF err = "nil" THEN "true" ELSE "false")
    ELSE IF err = "NotFound" THEN "false" ELSE "true"

FindByID ==
    /\ Alive
    /\ \E id \in Vals :
          IF ProbePanics THEN last' = Panic("FindByID", <<>>)
          ELSE IF ~IsConnected THEN last' = DoneIn("FindByID", <<id>>, "false", GuardCalls)
          ELSE \E err \in OneOutcomes :
                  last' = DoneIn("FindByID", <<id>>, FindByIDRet(err),
                                 GuardCalls \o InSession(<<DrvCallE(
                                    IF gen = "mongo" THEN "FindOne" ELSE "Find.One",
                                    id, 0, maxTimeMS, err)>>))
    /\ UNCHANGED <<gen, dbName, client, serverUp, maxTimeMS, life, concVars, dataVars, lent, probed>>
    /\ TrackCopies

\* part_003: the operations that open a cursor and read it themselves. Each
\* maps to the call that opens the cursor and the call that reads it.
mongoCursorOps ==
    [ Find |-> <<"Find", "All">>, Pipe |-> <<"Aggregate", "All">>,
      PipeWithMaxTime |-> <<"Aggregate", "All">>, PipeOne |-> <<"Aggregate", "Unmarshal(Current)">>,
      FindAll |-> <<"Find", "All">>, FindWithQuery |-> <<"Find", "All">>,
      FindWithQuerySortOne |-> <<"Find", "Unmarshal(Current)">>,
      FindWithQuerySortAll |-> <<"Find", "All">>, FindWithQuerySortLimitAll |-> <<"Find", "All">>,
      FindWithQueryOne |-> <<"Find", "Unmarshal(Current)">>, FindWithQueryAll |-> <<"Find", "All">>,
      FindWithQuerySortLimitOffsetAll |-> <<"Find", "All">>,
      CollectionNames |-> <<"ListCollections", "Next/Decode">> ]

\* Every cursor operation defers cursor.Close except CollectionNames.
CursorClosed(op) == op # "CollectionNames"

CursorTime(op) == IF op \in {"PipeWithMaxTime", "CollectionNames"} THEN 0 ELSE maxTimeMS

\* The calls of "open a cursor, return on error, read it, close it".
CursorCalls(op, openErr, readErr) ==
    IF openErr # "nil"
    THEN <<DrvCallE(mongoCursorOps[op][1], 0, 0, CursorTime(op), openErr)>>
    ELSE <<DrvCall(mongoCursorOps[op][1], 0, 0, CursorTime(op)),
           DrvCallE(mongoCursorOps[op][2], 0, 0, 0, readErr)>>
         \o (IF CursorClosed(op) THEN <<DrvCall("Cursor.Close", 0, 0, 0)>> ELSE <<>>)

CursorOp ==
    /\ Alive
    /\ gen = "mongo"
    /\ \E op \in DOMAIN mongoCursorOps :
          IF ~probed /\ ProbePanics THEN last' = Panic(op, <<>>)
          ELSE IF ~probed /\ ~IsConnected THEN last' = NotConnected(op)
          ELSE \E openErr \in CallOutcomes, readErr \in CallOutcomes :
                  last' = Done(op, IF openErr # "nil" THEN openErr ELSE readErr,
                               GuardCalls \o CursorCalls(op, openErr, readErr))
    /\ UNCHANGED <<gen, dbName, client, serverUp, maxTimeMS, life, concVars, dataVars, lent>>
    /\ probed' = FALSE
    /\ TrackCopies

----------------------------------------------------------------------------
(* Multi-step operations *)

\* The outcomes of n driver calls made one after another.
Outcomes(n) == [1..n -> CallOutcomes]

\* The index of the first failed call, or n + 1 when none failed.
FirstErr(errs, n) ==
    IF \E i \in 1..n : errs[i] # "nil"
    THEN CHOOSE i \in 1..n : errs[i] # "nil" /\ \A j \in 1..(i - 1) : errs[j] = "nil"
    ELSE n + 1

\* The upserts UpsertMulti issues: one per index, id[i] with v[i], in order.
UpsertCalls(id, v, errs) ==
    [i \in 1..Len(id) |->
        DrvCallE(IF gen = "mongo" THEN "UpdateOne(upsert)" ELSE "Upsert",
                 id[i], v[i], IF gen = "qmgo" THEN maxTimeMS ELSE 0, errs[i])]

\* lib.go:450 and part_001:384 drop every upsert's error and return nil;
\* part_003:553 overwrites err in each round and returns the last one.
UpsertMultiRet(errs, n) ==
    IF gen = "mongo" THEN (IF n = 0 THEN "nil" ELSE errs[n]) ELSE "nil"

\* A length check that only catches the longer id list.
LengthsDifferOneWay(id, v) == Len(id) > Len(v)

\* lib.go:439, part_001:375, part_003:545: "len(id) != len(v)".
LengthsDiffer(id, v) == Len(id) # Len(v)

UpsertMulti ==
    /\ Alive
    /\ \E id \in SeqsUpTo(Vals, MaxLen), v \in SeqsUpTo(Vals, MaxLen) :
          IF ProbePanics THEN last' = Panic("UpsertMulti", <<>>)
          ELSE IF ~IsConnected
               THEN last' = DoneIn("UpsertMulti", <<id, v>>, errorNotConnected, GuardCalls)
          ELSE IF LengthsDiffer(id, v)
               THEN last' = DoneIn("UpsertMulti", <<id, v>>, errorNotValid, GuardCalls)
          ELSE \E errs \in Outcomes(Len(id)) :
                  last' = DoneIn("UpsertMulti", <<id, v>>, UpsertMultiRet(errs, Len(id)),
                                 GuardCalls \o InSession(UpsertCalls(id, v, errs)))
    /\ UNCHANGED <<gen, dbName, client, serverUp, maxTimeMS, life, concVars, dataVars, lent, probed>>
    /\ TrackCopies

\* FindWithQuerySortLimitOffsetTotalAll: a count when total is given, then
\* the fetch. lib.go:346 and part_001:288 drop the count's error; part_003:448
\* returns it.
TotalAllCalls(withTotal, countErr, openErr, readErr) ==
    LET t     == IF gen = "qmgo" THEN 2 * maxTimeMS ELSE maxTimeMS
        count == IF withTotal
                 THEN <<DrvCallE(IF gen = "mongo" THEN "CountDocuments" ELSE "Find.Count",
                                 0, 0, t, countErr)>>
                 ELSE <<>>
    IN  IF gen = "mongo"
        THEN IF withTotal /\ countErr # "nil" THEN count
             ELSE count \o CursorCalls("FindWithQuerySortLimitOffsetAll", openErr, readErr)
        ELSE count \o <<DrvCallE("Find.All", 0, 0, t, readErr)>>

TotalAllRet(withTotal, countErr, openErr, readErr) ==
    IF gen = "mongo"
    THEN IF withTotal /\ countErr # "nil" THEN countErr
         ELSE IF openErr # "nil" THEN openErr ELSE readErr
    ELSE readErr

FindWithQuerySortLimitOffsetTotalAll ==
    /\ Alive
    /\ \E withTotal \in BOOLEAN :
          LET op == "FindWithQuerySortLimitOffsetTotalAll" IN
          IF ProbePanics THEN last' = Panic(op, <<>>)
          ELSE IF ~IsConnected THEN last' = DoneIn(op, <<withTotal>>, errorNotConnected, GuardCalls)
          ELSE \E countErr \in CallOutcomes, openErr \in CallOutcomes, readErr \in CallOutcomes :
                  last' = DoneIn(op, <<withTotal>>,
                                 TotalAllRet(withTotal, countErr, openErr, readErr),
                                 GuardCalls \o InSession(
                                    TotalAllCalls(withTotal, countErr, openErr, readErr)))
    /\ UNCHANGED <<gen, dbName, client, serverUp, maxTimeMS, life, concVars, dataVars, lent, probed>>
    /\ TrackCopies

\* CreateIndexKeys (and part_003's CreateIndexKey): one index call per key,
\* stopping at and returning the first error.
IndexCalls(keys, errs) ==
    LET stop == FirstErr(errs, Len(keys))
        n    == IF stop > Len(keys) THEN Len(keys) ELSE stop
    IN  [i \in 1..n |->
            DrvCallE(IF gen = "mongo" THEN "Indexes.CreateOne" ELSE "EnsureIndexKey",
                     keys[i], 0, 0, errs[i])]

IndexRet(keys, errs) ==
    LET stop == FirstErr(errs, Len(keys))
    IN  IF stop > Len(keys) THEN "nil" ELSE errs[stop]

CreateIndexKeys ==
    /\ Alive
    /\ gen \in {"mgo", "mongo"}
    /\ \E keys \in SeqsUpTo(Vals, MaxLen), op \in {"CreateIndexKeys", "CreateIndexKey"} :
          /\ op = "CreateIndexKey" => gen = "mongo"
          /\ IF ProbePanics THEN last' = Panic(op, <<>>)
             ELSE IF ~IsConnected THEN last' = DoneIn(op, <<keys>>, errorNotConnected, GuardCalls)
             ELSE \E errs \in Outcomes(Len(keys)) :
                     last' = DoneIn(op, <<keys>>, IndexRet(keys, errs),
                                    GuardCalls \o InSession(IndexCalls(keys, errs)))
    /\ UNCHANGED <<gen, dbName, client, serverUp, maxTimeMS, life, concVars, dataVars, lent, probed>>
    /\ TrackCopies

----------------------------------------------------------------------------
(* Bulk arguments *)

\* A Go value handed in as interface{}: its reflect kind, whether it is nil,
\* and its elements when it is a slice.
GoVal(kind, isNil, elems) == [kind |-> kind, isNil |-> isNil, elems |-> elems]

NilInterface == GoVal("invalid", TRUE, <<>>)     \* untyped nil: reflect kind Invalid
StructVal    == GoVal("struct", FALSE, <<>>)
PtrToStruct  == GoVal("ptr", FALSE, <<>>)
Slice(elems) == GoVal("slice", FALSE, elems)
NilSlice     == GoVal("slice", TRUE, <<>>)
PtrToSlice   == GoVal("ptrslice", FALSE, <<>>)

GoVals == {NilInterface, StructVal, PtrToStruct, NilSlice, PtrToSlice}
          \cup {Slice(e) : e \in SeqsUpTo(Vals, MaxLen)}

ErrInterfaceSlice == "ErrInterfaceSlice"
ErrInterfaceIsNil == "ErrInterfaceIsNil"

\* part_003:681: not a slice, then a nil slice, else the elements copied out.
toSlice(value) ==
    IF value.kind # "slice" THEN [doc |-> <<>>, err |-> ErrInterfaceSlice]
    ELSE IF value.isNil THEN [doc |-> <<>>, err |-> ErrInterfaceIsNil]
    ELSE [doc |-> value.elems, err |-> "nil"]

\* toSlice applied to any value the package may hand it.
toSliceCall ==
    /\ Alive
    /\ \E value \in GoVals :
          last' = DoneIn("toSlice", <<value>>, toSlice(value).err, <<>>)
    /\ UNCHANGED <<gen, dbName, client, serverUp, maxTimeMS, life, concVars, dataVars, lent, probed>>
    /\ TrackCopies

\* The documents a caller passes, each a value of its own (no slice).
Documents(args) ==
    IF args = <<>> THEN <<>> ELSE [i \in 1..Len(args) |-> [doc |-> args[i]]]

\* What a variadic parameter "docs ...interface{}" holds: nil when the call
\* names no argument, else a slice of the arguments.
Variadic(args, spreadEmpty) ==
    IF args = <<>> /\ ~spreadEmpty THEN NilSlice ELSE Slice(Documents(args))

\* part_003:143-149: toSlice(docs), its error returned before any write,
\* else one InsertMany of the documents.
InsertDocs(op, passed, docs, guards) ==
    LET r == toSlice(docs) IN
    IF r.err # "nil" THEN last' = DoneIn(op, <<passed>>, r.err, guards)
    ELSE \E err \in CallOutcomes :
            last' = DoneIn(op, <<passed>>, err,
                           guards \o <<DrvCallE("InsertMany", r.doc, 0, 0, err)>>)

Insert ==
    /\ Alive
    /\ gen = "mongo"
    /\ \E args \in SeqsUpTo(Vals, MaxLen), spreadEmpty \in BOOLEAN :
          IF ProbePanics THEN last' = Panic("Insert", <<>>)
          ELSE IF ~IsConnected THEN last' = NotConnected("Insert")
          ELSE InsertDocs("Insert", Variadic(args, spreadEmpty),
                          Variadic(args, spreadEmpty), GuardCalls)
    /\ UNCHANGED <<gen, dbName, client, serverUp, maxTimeMS, life, concVars, dataVars, lent, probed>>
    /\ TrackCopies

\* part_003:156 calls db.Insert(coll, docs): the whole slice is one argument
\* of Insert's variadic parameter.
InsertWithCheckIsDup ==
    /\ Alive
    /\ gen = "mongo"
    /\ \E args \in SeqsUpTo(Vals, MaxLen), spreadEmpty \in BOOLEAN :
          IF ProbePanics THEN last' = Panic("InsertWithCheckIsDup", <<>>)
          ELSE IF ~IsConnected THEN last' = NotConnected("InsertWithCheckIsDup")
          ELSE InsertDocs("InsertWithCheckIsDup", Variadic(args, spreadEmpty),
                          Slice(<<Variadic(args, spreadEmpty)>>), GuardCalls \o GuardCalls)
    /\ UNCHANGED <<gen, dbName, client, serverUp, maxTimeMS, life, concVars, dataVars, lent, probed>>
    /\ TrackCopies

\* RemoveWithIDs(coll, ids interface{}): the connectivity check, then ids goes
\* into the "$in" filter of one delete as it came.
RemoveWithIDs ==
    /\ Alive
    /\ \E ids \in GoVals :
          IF ProbePanics THEN last' = Panic("RemoveWithIDs", <<>>)
          ELSE IF ~IsConnected
               THEN last' = DoneIn("RemoveWithIDs", <<ids>>, errorNotConnected, GuardCalls)
          ELSE \E err \in CallOutcomes :
                  last' = DoneIn("RemoveWithIDs", <<ids>>, err,
                                 GuardCalls \o InSession(<<DrvCallE(
                                    IF gen = "mongo" THEN "DeleteMany" ELSE "RemoveAll",
                                    ids, 0, IF gen = "qmgo" THEN maxTimeMS ELSE 0, err)>>))
    /\ UNCHANGED <<gen, dbName, client, serverUp, maxTimeMS, life, concVars, dataVars, lent, probed>>
    /\ TrackCopies

----------------------------------------------------------------------------
(* Combine *)

\* Combine called with up to MaxLen options.
Combine ==
    /\ Alive
    /\ \E opts \in SeqsUpTo(OptionFns, MaxLen) :
          last' = Returned("Combine", <<opts>>, CombineOf(opts))
    /\ UNCHANGED <<gen, dbName, client, serverUp, maxTimeMS, life, concVars, dataVars, lent, probed>>
    /\ TrackCopies

----------------------------------------------------------------------------
(* Iter: the caller's callback is handed the cursor of an aggregate *)

\* What the caller's callback f may return.
CallbackRets == {"nil", "CallbackError"}

\* The invocation of the callback: the cursor it is handed ("live", or
\* "failed" for an mgo iterator that carries the error of its command),
\* whether it closes the cursor, and the error it returns.
CallbackCall(cursor, closes, ret) ==
    DrvCallE("f", cursor, IF closes THEN "closes" ELSE "keeps", 0, ret)

\* A variant of Iter that defers the close of the cursor it opened.
IterCallsDeferClose(openErr, closes, cbRet) ==
    IF gen = "mongo"
    THEN IF openErr # "nil"
         THEN <<DrvCallE("Aggregate", 0, 0, maxTimeMS, openErr)>>
         ELSE <<DrvCall("Aggregate", 0, 0, maxTimeMS), CallbackCall("live", closes, cbRet),
                DrvCall("Cursor.Close", 0, 0, 0)>>
    ELSE <<DrvCallE("Pipe.Iter", 0, 0, 0, openErr),
           CallbackCall(IF openErr = "nil" THEN "live" ELSE "failed", closes, cbRet),
           DrvCall("Iter.Close", 0, 0, 0)>>

\* part_003:671-677 opens the cursor with Aggregate, returns its error, and
\* otherwise returns f(cursor). lib.go:569-570: Pipe(query).Iter() returns
\* no error, so f is handed the iterator whatever became of the command.
IterCalls(openErr, closes, cbRet) ==
    IF gen = "mongo"
    THEN IF openErr # "nil"
         THEN <<DrvCallE("Aggregate", 0, 0, maxTimeMS, openErr)>>
         ELSE <<DrvCall("Aggregate", 0, 0, maxTimeMS), CallbackCall("live", closes, cbRet)>>
    ELSE <<DrvCallE("Pipe.Iter", 0, 0, 0, openErr),
           CallbackCall(IF openErr = "nil" THEN "live" ELSE "failed", closes, cbRet)>>

IterRet(openErr, cbRet) ==
    IF gen = "mongo" /\ openErr # "nil" THEN openErr ELSE cbRet

\* Iter exists in lib.go and part_003; part_001 has it commented out.
Iter ==
    /\ Alive
    /\ gen \in {"mgo", "mongo"}
    /\ \E closes \in BOOLEAN, cbRet \in CallbackRets :
          IF ProbePanics THEN last' = Panic("Iter", <<>>)
          ELSE IF ~IsConnected
               THEN last' = DoneIn("Iter", <<closes, cbRet>>, errorNotConnected, GuardCalls)
          ELSE \E openErr \in CallOutcomes :
                  last' = DoneIn("Iter", <<closes, cbRet>>, IterRet(openErr, cbRet),
                                 GuardCalls \o InSession(IterCalls(openErr, closes, cbRet)))
    /\ UNCHANGED <<gen, dbName, client, serverUp, maxTimeMS, life, concVars, dataVars, lent, probed>>
    /\ TrackCopies

----------------------------------------------------------------------------
(* The sequential specification: calls on one handle, one after another *)

IdleProcs == [p \in Procs |-> "idle"]
NoCalls   == [p \in Procs |-> 0]
NoAcq     == [d |-> 0, n |-> 0]

Init ==
    /\ gen \in Gens
    /\ client = "nil"
    /\ serverUp \in BOOLEAN
    /\ maxTimeMS = 0
    /\ dbName = ""
    /\ life = "never"
    /\ last = Fresh
    /\ pc = IdleProcs
    /\ cur = NoCalls
    /\ holder = 0
    /\ acq = NoAcq
    /\ raced = FALSE
    /\ store = {}
    /\ out = {}
    /\ copies = 0
    /\ lent = 0
    /\ probed = FALSE

Next ==
    \/ IsConnectedCall
    \/ Connect
    \/ ConnectWithTimeout
    \/ NewConnection
    \/ NewConnectionWithTimeout
    \/ Disconnect
    \/ SetMaxTimeMS
    \/ ServerFlip
    \/ SimpleOp
    \/ FindByID
    \/ CursorOp
    \/ UpsertMulti
    \/ FindWithQuerySortLimitOffsetTotalAll
    \/ CreateIndexKeys
    \/ toSliceCall
    \/ Insert
    \/ InsertWithCheckIsDup
    \/ RemoveWithIDs
    \/ Iter
    \/ Combine

Spec == Init /\ [][Next]_vars

----------------------------------------------------------------------------
(* The concurrent specification: goroutines sharing one connected handle,  *)
(* each call taken one step at a time.                                     *)

\* A Lock that does not wait.
LockNeverWaits == TRUE

\* sync.RWMutex.Lock returns once no goroutine holds the lock. No operation
\* of the wrapper takes the read lock, so there are no readers to wait for.
LockFree == holder = 0

\* SetMaxTimeMS, step by step (lib.go:69-73): the call, Lock, the write, Unlock.
SetCall(p) ==
    /\ pc[p] = "idle"
    /\ \E d \in SetArgs : cur' = [cur EXCEPT ![p] = d]
    /\ pc' = [pc EXCEPT ![p] = "lock"]
    /\ UNCHANGED <<seqVars, holder, acq, raced, dataVars, sessVars, probed>>

SetLock(p) ==
    /\ pc[p] = "lock"
    /\ LockFree
    /\ holder' = p
    /\ acq' = [d |-> cur[p], n |-> IF acq.n < MaxCalls THEN acq.n + 1 ELSE MaxCalls]
    /\ pc' = [pc EXCEPT ![p] = "write"]
    /\ UNCHANGED <<seqVars, cur, raced, dataVars, sessVars, probed>>

SetWrite(p) ==
    /\ pc[p] = "write"
    /\ maxTimeMS' = cur[p]
    /\ pc' = [pc EXCEPT ![p] = "unlock"]
    /\ UNCHANGED <<gen, dbName, client, serverUp, life, last, cur, holder, acq, raced, dataVars, sessVars, probed>>

SetUnlock(p) ==
    /\ pc[p] = "unlock"
    /\ holder' = 0
    /\ pc' = [pc EXCEPT ![p] = "idle"]
    /\ cur' = [cur EXCEPT ![p] = 0]
    /\ UNCHANGED <<seqVars, acq, raced, dataVars, sessVars, probed>>

\* A read operation, step by step (Find, lib.go:169-185): the connectivity
\* check, the read of db.maxTimeMS for SetMaxTime, the driver call.
ReadOp == "Find"

\* Whether the operation holds the read lock when it reads db.maxTimeMS: no
\* operation calls RLock.
ReadLocked == FALSE

OpGuard(p) ==
    /\ pc[p] = "idle"
    /\ ~ProbePanics
    /\ IF IsConnected
       THEN /\ pc' = [pc EXCEPT ![p] = "read"]
            /\ last' = last
       ELSE /\ pc' = pc
            /\ last' = NotConnected(ReadOp)
    /\ UNCHANGED <<gen, dbName, client, serverUp, maxTimeMS, life, cur, holder, acq, raced, dataVars, sessVars, probed>>

OpRead(p) ==
    /\ pc[p] = "read"
    /\ ReadLocked => LockFree
    /\ cur' = [cur EXCEPT ![p] = maxTimeMS]
    /\ raced' = (raced \/ holder # 0)
    /\ pc' = [pc EXCEPT ![p] = "call"]
    /\ UNCHANGED <<seqVars, holder, acq, dataVars, sessVars, probed>>

OpCall(p) ==
    /\ pc[p] = "call"
    /\ \E err \in CallOutcomes :
          last' = Done(ReadOp, err,
                       GuardCalls \o InSession(<<DrvCallE("Find.All", 0, 0, cur[p], err)>>))
    /\ cur' = [cur EXCEPT ![p] = 0]
    /\ pc' = [pc EXCEPT ![p] = "idle"]
    /\ UNCHANGED <<gen, dbName, client, serverUp, maxTimeMS, life, holder, acq, raced, dataVars, sessVars, probed>>

\* The handle after a constructor that connected.
InitConc ==
    /\ gen \in Gens
    /\ client = "live"
    /\ serverUp \in BOOLEAN
    /\ maxTimeMS = mongoQueryTimeout
    /\ dbName = "test"
    /\ life = "connected"
    /\ last = Done("NewConnection", "nil", <<>>)
    /\ pc = IdleProcs
    /\ cur = NoCalls
    /\ holder = 0
    /\ acq = NoAcq
    /\ raced = FALSE
    /\ store = {}
    /\ out = {}
    /\ copies = 0
    /\ lent = 0
    /\ probed = FALSE

NextConc ==
    \E p \in Procs :
        \/ SetCall(p)
        \/ SetLock(p)
        \/ SetWrite(p)
        \/ SetUnlock(p)
        \/ OpGuard(p)
        \/ OpRead(p)
        \/ OpCall(p)

SpecConc == InitConc /\ [][NextConc]_vars

----------------------------------------------------------------------------
(* Disconnect against a running operation: the goroutines of the          *)
(* concurrent specification, one of them closing the handle.              *)

\* Disconnect, step by step (lib.go:75-79, part_001:83-89, part_003:97-101):
\* the connectivity check, then the close. No lock is taken around them.
DiscGuard(p) ==
    /\ pc[p] = "idle"
    /\ ~ProbePanics
    /\ IF IsConnected
       THEN /\ pc' = [pc EXCEPT ![p] = "close"]
            /\ last' = last
       ELSE /\ pc' = pc
            /\ last' = Done("Disconnect", "nil", GuardCalls)
    /\ UNCHANGED <<gen, dbName, client, serverUp, maxTimeMS, life, cur, holder, acq, raced, dataVars, sessVars, probed>>

DiscClose(p) ==
    /\ pc[p] = "close"
    /\ \E err \in CloseOutcomes :
          last' = IF gen = "qmgo" /\ err # "nil"
                  THEN Panic("Disconnect", <<DrvCallE("Close", 0, 0, 0, err)>>)
                  ELSE Done("Disconnect", "nil", <<DrvCallE("Close", 0, 0, 0, err)>>)
    /\ client' = "closed"
    /\ life' = "disconnected"
    /\ pc' = [pc EXCEPT ![p] = "idle"]
    /\ UNCHANGED <<gen, dbName, serverUp, maxTimeMS, cur, holder, acq, raced, dataVars, sessVars, probed>>

NextClose ==
    \/ \E p \in Procs : OpGuard(p)
    \/ \E p \in Procs : OpRead(p)
    \/ \E p \in Procs : OpCall(p)
    \/ \E p \in Procs : DiscGuard(p)
    \/ \E p \in Procs : DiscClose(p)
    \/ ServerFlip

SpecClose == InitConc /\ [][NextClose]_vars

----------------------------------------------------------------------------
(* The session specification: lib.go's handle, whose operations each work  *)
(* on a copy of the session, and whose SessCopy lends a copy to the caller *)

\* What a caller's function does with the session it is handed.
OptOutcomes == {"returns", "panics"}

\* lib.go:526-532 SessCopy: nil when not connected, else a copy of the
\* session, which the caller owns from then on.
SessCopy ==
    /\ Alive
    /\ gen = "mgo"
    /\ lent < MaxCalls
    /\ IF ~IsConnected
       THEN /\ last' = Returned("SessCopy", <<>>, "nil")
            /\ lent' = lent
       ELSE /\ last' = [Returned("SessCopy", <<>>, "session")
                           EXCEPT !.calls = <<DrvCall("Copy", 0, 0, 0)>>]
            /\ lent' = lent + 1
    /\ UNCHANGED <<gen, dbName, client, serverUp, maxTimeMS, life, concVars, dataVars, probed>>
    /\ TrackCopies

\* lib.go:534-540 SessClose: nothing when not connected or handed nil,
\* else the session is closed. The caller passes nil, or a session SessCopy
\* returned and that it still holds.
SessClose ==
    /\ Alive
    /\ gen = "mgo"
    /\ \E sess \in {"nil"} \cup (IF lent > 0 THEN {"session"} ELSE {}) :
          IF ~IsConnected \/ sess = "nil"
          THEN /\ last' = DoneIn("SessClose", <<sess>>, "nil", <<>>)
               /\ lent' = lent
          ELSE /\ last' = DoneIn("SessClose", <<sess>>, "nil", <<DrvCall("CopyClose", 0, 0, 0)>>)
               /\ lent' = lent - 1
    /\ UNCHANGED <<gen, dbName, client, serverUp, maxTimeMS, life, concVars, dataVars, probed>>
    /\ TrackCopies

\* lib.go:514-524 SessExec: the guard, a copy, the deferred close, then the
\* caller's function on the copy; the deferred close runs when cb panics too.
SessExec ==
    /\ Alive
    /\ gen = "mgo"
    /\ \E cb \in OptOutcomes :
          IF ~IsConnected THEN last' = DoneIn("SessExec", <<cb>>, "nil", <<>>)
          ELSE last' = DoneIn("SessExec", <<cb>>, IF cb = "panics" THEN "panic" ELSE "nil",
                              InSession(<<DrvCall("cb", 0, 0, 0)>>))
    /\ UNCHANGED <<gen, dbName, client, serverUp, maxTimeMS, life, concVars, dataVars, lent, probed>>
    /\ TrackCopies

\* lib.go:376-389 UpdateWithQuery with options: the options are applied to
\* the copy before its close is deferred, so an option that panics leaves
\* the copy open; one that returns is followed by the defer and the Update.
UpdateWithQueryOpts ==
    /\ Alive
    /\ gen = "mgo"
    /\ \E opt \in OptOutcomes :
          IF ~IsConnected
          THEN last' = DoneIn("UpdateWithQuery", <<opt>>, errorNotConnected, <<>>)
          ELSE IF opt = "panics"
               THEN last' = DoneIn("UpdateWithQuery", <<opt>>, "panic",
                                   <<DrvCall("Copy", 0, 0, 0), DrvCall("opt", 0, 0, 0)>>)
          ELSE \E err \in CallOutcomes :
                  last' = DoneIn("UpdateWithQuery", <<opt>>, err,
                                 InSession(<<DrvCall("opt", 0, 0, 0),
                                             DrvCallE("Update", 0, 0, 0, err)>>))
    /\ UNCHANGED <<gen, dbName, client, serverUp, maxTimeMS, life, concVars, dataVars, lent, probed>>
    /\ TrackCopies

InitSess == Init /\ gen = "mgo"

NextSess ==
    \/ IsConnectedCall
    \/ Connect
    \/ ConnectWithTimeout
    \/ Disconnect
    \/ ServerFlip
    \/ SimpleOp
    \/ FindByID
    \/ UpsertMulti
    \/ FindWithQuerySortLimitOffsetTotalAll
    \/ CreateIndexKeys
    \/ RemoveWithIDs
    \/ Iter
    \/ SessCopy
    \/ SessClose
    \/ SessExec
    \/ UpdateWithQueryOpts

SpecSess == InitSess /\ [][NextSess]_vars

----------------------------------------------------------------------------
(* The data specification: the operations together with the collection   *)
(* they act on. The server keeps one collection of documents with unique  *)
(* _id; a driver call succeeds when the handle is open and the server     *)
(* answers.                                                               *)

Ids  == 1..MaxLen
Docs == [id : Ids, data : Vals]

\* A filter on one field, {key: val}; "raw" is a bare value handed over
\* where the driver expects a filter document.
Filter(key, val) == [key |-> key, val |-> val]

\* The server's match: a document has the fields _id and data only.
Matches(doc, filter) ==
    CASE filter.key = "_id"  -> doc.id = filter.val
      [] filter.key = "data" -> doc.data = filter.val
      [] OTHER               -> FALSE

Matching(filter) == {d \in store : Matches(d, filter)}

\* A bare value is no filter document: the driver cannot encode it.
Encodable(filter) == filter.key # "raw"

\* The error of a driver call that touches the collection.
DataErr(filter) == IF PingOK /\ Encodable(filter) THEN "nil" ELSE "DriverError"

\* An unordered bulk insert: every document whose _id is free goes in.
RECURSIVE InsertAll(_, _, _)
InsertAll(st, docs, i) ==
    IF i > Len(docs) THEN st
    ELSE InsertAll(IF \E d \in st : d.id = docs[i].id THEN st ELSE st \cup {docs[i]},
                   docs, i + 1)

RECURSIVE HasDuplicate(_, _, _)
HasDuplicate(st, docs, i) ==
    IF i > Len(docs) THEN FALSE
    ELSE \/ \E d \in st : d.id = docs[i].id
         \/ HasDuplicate(st \cup {docs[i]}, docs, i + 1)

\* $set of the data field in the matching documents, all of them or one.
SetData(filter, v, many) ==
    LET hit == IF many \/ Matching(filter) = {} THEN Matching(filter)
               ELSE {CHOOSE d \in Matching(filter) : TRUE}
    IN  (store \ hit) \cup {[d EXCEPT !.data = v] : d \in hit}

\* The outcome of a guarded operation: the probe's panic, the not-connected
\* error, or what the operation itself does.
DataGuard(op, in, body) ==
    IF probed THEN body
    ELSE IF ProbePanics THEN last' = Panic(op, <<>>) /\ UNCHANGED dataVars
    ELSE IF ~IsConnected
         THEN last' = DoneIn(op, in, IF op = "FindByID" THEN "false" ELSE errorNotConnected,
                             GuardCalls)
              /\ UNCHANGED dataVars
         ELSE body

DataCall(op, in, ret, fn, filter, err) ==
    last' = DoneIn(op, in, ret, GuardCalls \o InSession(<<DrvCallE(fn, filter, 0, TimeOf(op), err)>>))

\* lib.go:114, part_001:91, part_003:138: one document inserted.
InsertDoc ==
    /\ Alive
    /\ \E d \in Docs :
          DataGuard("Insert", <<d>>,
              LET dup == \E e \in store : e.id = d.id
                  err == IF ~PingOK THEN "DriverError" ELSE IF dup THEN "DuplicateKey" ELSE "nil"
              IN  /\ store' = IF err = "nil" THEN store \cup {d} ELSE store
                  /\ out' = out
                  /\ DataCall("Insert", <<d>>, err, "Insert", d, err))
    /\ UNCHANGED <<seqVarsButLast, concVars, sessVars>>
    /\ probed' = FALSE

\* The filter FindByID hands to the driver: lib.go:232 FindId(id),
\* part_003:271 {"_id": id}, part_001:179 {"_id:": id}.
FindByIDFilter(id) == Filter(IF gen = "qmgo" THEN "_id:" ELSE "_id", id)

\* The error of a read of one document.
OneErr(filter) ==
    IF DataErr(filter) # "nil" THEN DataErr(filter)
    ELSE IF Matching(filter) = {} THEN "NotFound" ELSE "nil"

FindByIDDoc ==
    /\ Alive
    /\ \E id \in Ids :
          DataGuard("FindByID", <<id>>,
              LET filter == FindByIDFilter(id)
                  err    == OneErr(filter)
              IN  /\ out' = IF err = "nil" THEN Matching(filter) ELSE out
                  /\ store' = store
                  /\ DataCall("FindByID", <<id>>, FindByIDRet(err), "Find.One", filter, err))
    /\ UNCHANGED <<seqVarsButLast, concVars, sessVars>>
    /\ probed' = FALSE

\* lib.go:468 and part_001:398 remove by {"_id": id}; part_003:569 hands the
\* id itself to DeleteOne as the filter.
RemoveFilter(id) == Filter(IF gen = "mongo" THEN "raw" ELSE "_id", id)

RemoveDoc ==
    /\ Alive
    /\ \E id \in Ids :
          DataGuard("Remove", <<id>>,
              LET filter == RemoveFilter(id)
                  err    == DataErr(filter)
              IN  /\ store' = IF err = "nil" THEN store \ Matching(filter) ELSE store
                  /\ out' = out
                  /\ DataCall("Remove", <<id>>, err, OpTable["Remove"], filter, err))
    /\ UNCHANGED <<seqVarsButLast, concVars, sessVars>>
    /\ probed' = FALSE

\* What FindWithQueryOne returns: lib.go:307 and part_001:257 the error of
\* Find(query).One(v), the driver's not-found sentinel as it comes;
\* part_003:397 decodes cursor.Current of a cursor it never advanced.
FindWithQueryOneErr(filter) ==
    IF gen = "mongo"
    THEN IF DataErr(filter) # "nil" THEN DataErr(filter) ELSE "UnmarshalError"
    ELSE OneErr(filter)

FindWithQueryOneDoc ==
    /\ Alive
    /\ \E id \in Ids :
          DataGuard("FindWithQueryOne", <<id>>,
              LET filter == Filter("_id", id)
                  err    == FindWithQueryOneErr(filter)
              IN  /\ out' = IF err = "nil" THEN Matching(filter) ELSE out
                  /\ store' = store
                  /\ DataCall("FindWithQueryOne", <<id>>, err, "Find.One", filter, err))
    /\ UNCHANGED <<seqVarsButLast, concVars, sessVars>>
    /\ probed' = FALSE

\* The lists of documents a bulk insert is handed: no _id twice.
DocLists == {ds \in SeqsUpTo(Docs, MaxLen) :
                \A i \in 1..Len(ds), j \in 1..Len(ds) : ds[i].id = ds[j].id => i = j}

\* lib.go:139, part_001:115, part_003:160: an unordered bulk of inserts.
InsertBulkDocs ==
    /\ Alive
    /\ \E docs \in DocLists :
          DataGuard("InsertBulk", <<docs>>,
              LET err == IF ~PingOK THEN "DriverError"
                         ELSE IF HasDuplicate(store, docs, 1) THEN "DuplicateKey" ELSE "nil"
              IN  /\ store' = IF PingOK THEN InsertAll(store, docs, 1) ELSE store
                  /\ out' = out
                  /\ DataCall("InsertBulk", <<docs>>, err, OpTable["InsertBulk"], 0, err))
    /\ UNCHANGED <<seqVarsButLast, concVars, sessVars>>
    /\ probed' = FALSE

\* lib.go:169, part_001:133, part_003:187: Find with a one-field query.
FindDocs ==
    /\ Alive
    /\ \E val \in Vals :
          DataGuard("Find", <<Filter("data", val)>>,
              LET filter == Filter("data", val)
                  err    == DataErr(filter)
              IN  /\ out' = IF err = "nil" THEN Matching(filter) ELSE out
                  /\ store' = store
                  /\ DataCall("Find", <<filter>>, err, "Find.All", filter, err))
    /\ UNCHANGED <<seqVarsButLast, concVars, sessVars>>
    /\ probed' = FALSE

\* Whether the driver call behind an update touches every match:
\* UpdateWithQueryAll does; part_001:326 UpdateWithQuery calls UpdateAll.
UpdatesMany(op) == op = "UpdateWithQueryAll" \/ (gen = "qmgo" /\ op = "UpdateWithQuery")

\* lib.go:373 Update and lib.go:388 UpdateWithQuery return the driver's
\* not-found sentinel when nothing matches; the other calls return nil.
UpdateErr(op, filter) ==
    IF DataErr(filter) # "nil" THEN DataErr(filter)
    ELSE IF gen = "mgo" /\ op # "UpdateWithQueryAll" /\ Matching(filter) = {}
         THEN "NotFound" ELSE "nil"

UpdateNames == {"Update", "UpdateWithQuery", "UpdateWithQueryAll"}

\* Update sets by {"_id": id}; the two by-query updates by the caller's
\* query, here a query on _id.
UpdateDocs ==
    /\ Alive
    /\ \E op \in UpdateNames, id \in Ids, v \in Vals :
          DataGuard(op, <<id, v>>,
              LET filter == Filter("_id", id)
                  err    == UpdateErr(op, filter)
              IN  /\ store' = IF err = "nil" THEN SetData(filter, v, UpdatesMany(op)) ELSE store
                  /\ out' = out
                  /\ DataCall(op, <<id, v>>, err, OpTable[op], filter, err))
    /\ UNCHANGED <<seqVarsButLast, concVars, sessVars>>
    /\ probed' = FALSE

\* UpdateWithQuery and UpdateWithQueryAll with a query on the data field,
\* which any number of documents may match (lib.go:376-406,
\* part_001:313-348, part_003:497-516).
UpdateByQuery ==
    /\ Alive
    /\ \E op \in {"UpdateWithQuery", "UpdateWithQueryAll"}, val \in Vals, v \in Vals :
          DataGuard(op, <<val, v>>,
              LET filter == Filter("data", val)
                  err    == UpdateErr(op, filter)
              IN  /\ store' = IF err = "nil" THEN SetData(filter, v, UpdatesMany(op)) ELSE store
                  /\ out' = out
                  /\ DataCall(op, <<val, v>>, err, OpTable[op], filter, err))
    /\ UNCHANGED <<seqVarsButLast, concVars, sessVars>>
    /\ probed' = FALSE

\* The collection as the handle finds it: empty, or holding a document
\* another client stored.
InitialStores == {{}, {[id |-> 1, data |-> 1]}}

InitData ==
    /\ gen \in Gens
    /\ client = "live"
    /\ serverUp \in BOOLEAN
    /\ maxTimeMS = mongoQueryTimeout
    /\ dbName = "test"
    /\ life = "connected"
    /\ last = Done("NewConnection", "nil", <<>>)
    /\ pc = IdleProcs
    /\ cur = NoCalls
    /\ holder = 0
    /\ acq = NoAcq
    /\ raced = FALSE
    /\ store \in InitialStores
    /\ out = {}
    /\ copies = 0
    /\ lent = 0
    /\ probed = FALSE

NextData ==
    \/ InsertDoc
    \/ FindByIDDoc
    \/ RemoveDoc
    \/ FindWithQueryOneDoc
    \/ InsertBulkDocs
    \/ FindDocs
    \/ UpdateDocs
    \/ ServerFlip

SpecData == InitData /\ [][NextData]_vars

----------------------------------------------------------------------------
(* The stepwise specification: an operation's connectivity check and its   *)
(* driver call are two moments, and the server may come or go in between.  *)

\* The first statement of every guarded operation, if !db.IsConnected():
\* the check passes and the operation goes on to its driver call. (A check
\* that fails returns at once and is part of the operation's own action.)
OpProbe ==
    /\ Alive
    /\ ~probed
    /\ ~ProbePanics
    /\ IsConnected
    /\ probed' = TRUE
    /\ UNCHANGED <<seqVars, concVars, dataVars, sessVars>>

NextProbe ==
    \/ OpProbe
    \/ ServerFlip
    \/ InsertDoc
    \/ FindByIDDoc
    \/ RemoveDoc
    \/ FindWithQueryOneDoc
    \/ InsertBulkDocs
    \/ FindDocs
    \/ UpdateDocs
    \/ UpdateByQuery
    \/ CursorOp

SpecProbe == InitData /\ [][NextProbe]_vars

----------------------------------------------------------------------------
(* The claims *)

\* The names of the CRUD, aggregate and index operations.
CrudNames ==
    DOMAIN mgoOps \cup DOMAIN qmgoOps \cup DOMAIN mongoOps \cup DOMAIN mongoCursorOps
    \cup { "FindByID", "UpsertMulti", "FindWithQuerySortLimitOffsetTotalAll",
           "CreateIndexKeys", "CreateIndexKey", "Insert", "InsertWithCheckIsDup",
           "RemoveWithIDs" }

\* What the not-connected guard answers, and nothing reaches the driver.
FailedFast(r) ==
    /\ r.ret = IF r.op = "FindByID" THEN "false" ELSE errorNotConnected
    /\ r.calls = <<>>

\* The driver calls of an operation other than the connectivity probe.
OpCalls(r) == SelectSeq(r.calls, LAMBDA c : c.fn # "Ping")

\* Those among them that act on the database (not the session bookkeeping).
DataCalls(r) == SelectSeq(r.calls, LAMBDA c : c.fn \notin {"Ping", "Copy", "CopyClose", "Cursor.Close"})

\* C1: every CRUD/aggregate/index operation called on a handle that was
\* never connected returns the not-connected error (false for FindByID) and
\* issues no driver call.
C1_NeverConnectedFailsFast ==
    (life = "never" /\ last.op \in CrudNames) => FailedFast(last)

\* C2: once Disconnect has completed on a connected handle, IsConnected is
\* false and every later CRUD operation fails with the not-connected error
\* without calling the driver.
C2_DisconnectedIsNotConnected ==
    life = "disconnected" =>
        /\ ~ProbePanics /\ ~IsConnected
        /\ last.op \in CrudNames => FailedFast(last)

\* C3: IsConnected probes the driver and returns true exactly when the
\* probe succeeds.
C3_IsConnectedIsLiveProbe ==
    last.op = "IsConnected" =>
        /\ Len(last.calls) = 1
        /\ last.calls[1].fn = "Ping"
        /\ (last.ret = "true") <=> (last.calls[1].err = "nil")

\* C4: Disconnect on a handle that is already disconnected, or was never
\* connected, is a no-op: no close call reaches the driver and it does not
\* panic.
C4_DisconnectIdempotent ==
    [][(Disconnect /\ life # "connected") =>
          /\ last'.ret = "nil"
          /\ \A i \in 1..Len(last'.calls) : last'.calls[i].fn # "Close"]_vars

ConnectNames == {"Connect", "ConnectWithTimeout", "NewConnection", "NewConnectionWithTimeout"}
DialNames    == {"Dial", "NewClient", "mongo.Connect"}

\* C5: when the dial fails, Connect, ConnectWithTimeout and the constructors
\* return the connection error as a value and the handle reports not
\* connected.
C5_DialFailureReturned ==
    ( /\ last.op \in ConnectNames
      /\ Len(last.calls) > 0
      /\ last.calls[1].fn \in DialNames
      /\ last.calls[1].err # "nil" ) =>
        /\ last.ret = "DriverError"
        /\ ~ProbePanics /\ ~IsConnected

\* C6: no operation reads maxTimeMS while a SetMaxTimeMS caller is between
\* Lock and Unlock: every read happens under the read lock.
C6_ReadsUnderReadLock == ~raced

InWriteSection(p) == pc[p] \in {"write", "unlock"}

\* C7: at most one SetMaxTimeMS caller is between Lock and Unlock, the lock
\* is held exactly while one is, and once no caller is inside, the stored
\* timeout is the argument of the call that acquired the lock last.
C7_ExclusiveWrite ==
    /\ Cardinality({p \in Procs : InWriteSection(p)}) <= 1
    /\ \A p \in Procs : InWriteSection(p) <=> holder = p
    /\ (holder = 0 /\ acq.n > 0) => maxTimeMS = acq.d

\* Two SetMaxTimeMS calls have acquired the lock, one is inside its write
\* section with the other's value still stored, and a third caller waits.
C7_Witness ==
    /\ acq.n >= 2
    /\ \E p \in Procs, q \in Procs :
          /\ pc[p] = "write" /\ pc[q] = "lock"
          /\ maxTimeMS # cur[p] /\ maxTimeMS # mongoQueryTimeout

MultiStepNames == {"UpsertMulti", "FindWithQuerySortLimitOffsetTotalAll", "CreateIndexKeys"}

\* C8: a multi-step operation returns a non-nil error whenever any one of
\* its driver calls failed.
C8_AnyFailureSurfaces ==
    ( /\ last.op \in MultiStepNames
      /\ \E i \in 1..Len(OpCalls(last)) : OpCalls(last)[i].err # "nil" ) =>
        last.ret \notin {"nil"}

IsSequence(value) == value.kind = "slice" /\ ~value.isNil

BulkNames == {"Insert", "InsertWithCheckIsDup", "RemoveWithIDs", "toSlice"}

\* C9: a bulk operation handed a value that is not a slice returns
\* ErrInterfaceSlice, handed a nil slice returns ErrInterfaceIsNil, and in
\* both cases writes nothing.
C9_NonSequenceRejected ==
    ( /\ last.op \in BulkNames
      /\ Len(last.in) = 1
      /\ last.ret \notin {"panic", errorNotConnected}
      /\ ~IsSequence(last.in[1]) ) =>
        /\ last.ret = IF last.in[1].kind # "slice" THEN ErrInterfaceSlice ELSE ErrInterfaceIsNil
        /\ DataCalls(last) = <<>>

IndexNames == {"CreateIndexKey", "CreateIndexKeys", "CollectionNames", "Run"}

\* The time bound the configured query timeout prescribes for an operation.
PrescribedTime(op) ==
    IF op = "FindWithQuerySortLimitOffsetTotalAll" THEN 2 * maxTimeMS ELSE maxTimeMS

\* C11: every driver call of a CRUD/aggregate operation on a connected
\* handle runs under a time bound equal to the configured query timeout
\* (twice that for FindWithQuerySortLimitOffsetTotalAll), and none runs
\* with no time bound.
C11_CallsAreTimeBounded ==
    (last.op \in CrudNames \ IndexNames /\ life = "connected") =>
        \A i \in 1..Len(DataCalls(last)) :
            /\ DataCalls(last)[i].t = PrescribedTime(last.op)
            /\ DataCalls(last)[i].t > 0

\* The calls of an Iter that open the cursor, invoke the callback, and close
\* the cursor on the library's own account.
IterOpens(r)     == SelectSeq(r.calls, LAMBDA c : c.fn \in {"Aggregate", "Pipe.Iter"})
IterCallbacks(r) == SelectSeq(r.calls, LAMBDA c : c.fn = "f")
IterCloses(r)    == SelectSeq(r.calls, LAMBDA c : c.fn \in {"Cursor.Close", "Iter.Close"})

\* The Iter whose connectivity check passed.
IterRan == last.op = "Iter" /\ last.ret \notin {"panic", errorNotConnected}

\* The callback ran once on the cursor and its result came back unchanged;
\* the library closed nothing.
IterHandsOver(r) ==
    /\ Len(IterCallbacks(r)) = 1
    /\ r.ret = IterCallbacks(r)[1].err
    /\ IterCallbacks(r)[1].err = r.in[2]
    /\ IterCloses(r) = <<>>

RECURSIVE Chained(_, _, _)
Chained(m, opts, i) == IF i = 0 THEN m ELSE Chained(apply(opts[i], m), opts, i - 1)

\* C13: Combine(o1, ..., on) is the base default with the functions applied
\* in reverse order, each to the value the previous one returned, so every
\* field a function sets in the value it returns is in the result unless a
\* later-applied function overrides it.
C13_CombineChains ==
    last.op = "Combine" => last.val = Chained(newOptions, last.in[1], Len(last.in[1]))

\* Whether some option of the list sets the named field.
Sets(opts, field) == \E i \in 1..Len(opts) : opts[i].field = field

\* The database name a constructor call was handed ("" for none).
SuppliedDatabase(r) == IF Len(r.in) = 1 THEN r.in[1] ELSE ""

\* C14: when no database name is supplied the name used is "test": Combine
\* without a name-setting option has DBName() = "test", and a handle built
\* by NewConnection / NewConnectionWithTimeout without a name (or with an
\* empty one) stores "test"; a non-empty supplied name is stored unchanged.
C14_DefaultDatabaseIsTest ==
    /\ (last.op = "Combine" /\ ~Sets(last.in[1], "dbName")) => DBName(last.val) = "test"
    /\ (last.op \in {"NewConnection", "NewConnectionWithTimeout"}
          /\ gen \in {"qmgo", "mongo"} /\ last.ret = "nil") =>
            dbName = IF SuppliedDatabase(last) = "" THEN "test" ELSE SuppliedDatabase(last)

\* C15: with no read-preference option applied, the configuration has read
\* preference secondary-preferred, in its readPref field and in the driver
\* client options it carries.
C15_DefaultReadPreference ==
    ( /\ last.op = "Combine"
      /\ ~Sets(last.in[1], "readPref")
      /\ ~Sets(last.in[1], "options.readPref") ) =>
        /\ last.val.readPref = "secondaryPreferred"
        /\ last.val.options.readPref = "secondaryPreferred"

\* The connection timeout a dial ran under.
DialBound(c) ==
    CASE c.fn = "Dial"          -> c.t
      [] c.fn = "mongo.Connect" -> c.a
      [] c.fn = "NewClient"     -> c.t

\* The timeouts of a caller that count as set.
SetTimeouts == {t \in Timeouts : t >= Second}

\* C16: every constructor sets the per-query timeout to 30 seconds, and a
\* connection made with no timeout, or with one below a second, dials under
\* 30 seconds.
C16_UnsetTimeoutIsThirtySeconds ==
    ( /\ last.op \in ConnectNames
      /\ Len(last.calls) > 0
      /\ last.calls[1].fn \in DialNames ) =>
        /\ DialBound(last.calls[1]) \in SetTimeouts \cup {30 * Second}
        /\ last.op \in {"NewConnection", "NewConnectionWithTimeout"} =>
              maxTimeMS = 30 * Second

\* The server answered every call the operation made, its probe included.
Healthy(r) == \A i \in 1..Len(r.calls) : r.calls[i].err # "DriverError"

\* The stored documents with the given identifier.
WithId(id) == {d \in store : d.id = id}

\* C17: finding by identifier a document that was inserted succeeds and
\* yields a document equal to the one inserted.
C17_InsertFindRoundTrip ==
    (last.op = "FindByID" /\ Healthy(last) /\ WithId(last.in[1]) # {}) =>
        /\ last.ret = "true"
        /\ out = WithId(last.in[1])

\* The not-found error the library names: part_001:36 exports the driver's
\* sentinel as ErrNoSuchDocuments; the other generations define none, and
\* the tests expect ErrNotFound.
NotFoundError == IF gen = "qmgo" THEN "NotFound" ELSE "ErrNotFound"

\* C18: a find-one by the identifier of a document that has been deleted
\* returns the library's own not-found error, not success and not another
\* error.
C18_FindAfterDeleteIsNotFound ==
    (last.op = "FindWithQueryOne" /\ Healthy(last) /\ WithId(last.in[1]) = {}) =>
        last.ret = NotFoundError

Range(seq) == {seq[i] : i \in 1..Len(seq)}

\* C19: a bulk insert of documents with fresh identifiers stores every one
\* of them whatever their order, and a find with a filter then returns
\* exactly the stored documents that match it.
C19_BulkInsertThenFind ==
    [][ /\ (InsertBulkDocs /\ PingOK /\ \A d \in Range(last'.in[1]) : WithId(d.id) = {}) =>
              (last'.ret = "nil" /\ store' = store \cup Range(last'.in[1]))
        /\ (FindDocs /\ PingOK) =>
              (last'.ret = "nil" /\ out' = Matching(last'.in[1])) ]_vars

\* C20: each of Update, UpdateWithQuery and UpdateWithQueryAll applied to an
\* existing document leaves it with the field equal to the value just set
\* and its identifier, and every other document, unchanged.
C20_UpdatesSetLatestValue ==
    [][ (UpdateDocs /\ PingOK /\ WithId(last'.in[1]) # {}) =>
            /\ last'.ret = "nil"
            /\ store' = {IF d.id = last'.in[1] THEN [d EXCEPT !.data = last'.in[2]] ELSE d : d \in store} ]_vars

\* C21: no operation issues a driver call on a handle that Disconnect has
\* already closed: an operation running beside Disconnect either makes its
\* calls before the close or returns the not-connected error.
C21_NoCallOnClosedHandle ==
    (last.op = ReadOp /\ DataCalls(last) # <<>>) => client # "closed"

\* C22: in lib.go, after any sequence of completed operations the session
\* copies the library made and has not closed are exactly the sessions
\* SessCopy returned that were not yet passed to SessClose, and an
\* operation the connectivity guard rejected made no copy.
C22_CopiesAreLentSessions ==
    (gen = "mgo" /\ Alive) =>
        /\ copies = lent
        /\ (last.ret = errorNotConnected =>
               SelectSeq(last.calls, LAMBDA c : c.fn = "Copy") = <<>>)

\* A session is lent to the caller, and an operation that failed in the
\* driver has returned after making and closing its own copy.
C22_Witness ==
    /\ gen = "mgo"
    /\ lent > 0
    /\ copies = lent
    /\ last.ret = "DriverError"
    /\ NetCopies(last.calls) = 0
    /\ SelectSeq(last.calls, LAMBDA c : c.fn = "Copy") # <<>>

\* C23: in part_003 every operation that opens a cursor and does not hand it
\* to a callback has closed that cursor by the time it returns, whether the
\* read of the cursor succeeded or failed.
C23_OpenedCursorIsClosed ==
    (/\ gen = "mongo"
     /\ last.op \in DOMAIN mongoCursorOps
     /\ \E i \in 1..Len(last.calls) :
            /\ last.calls[i].fn \in {"Find", "Aggregate", "ListCollections"}
            /\ last.calls[i].err = "nil")
    => \E i \in 1..Len(last.calls) : last.calls[i].fn = "Cursor.Close"

\* C24: when the driver answers and at least one document matches the
\* query, FindWithQueryOne returns no error and has decoded the first
\* matching document into v, in every generation alike.
C24_OneDecodesFirstMatch ==
    (/\ last.op = "FindWithQueryOne"
     /\ Len(last.in) = 1
     /\ last.ret \notin {errorNotConnected, "panic", "DriverError"}
     /\ WithId(last.in[1]) # {})
    => (last.ret = "nil" /\ out = WithId(last.in[1]))

\* C25: a Remove(coll, id) that reaches a server that answers returns no
\* error and leaves the collection as it was less the documents whose _id
\* is id; when no document has that _id the collection is unchanged.
C25_RemoveDeletesExactlyId ==
    [][(/\ last' # last
        /\ last'.op = "Remove"
        /\ Len(last'.in) = 1
        /\ PingOK
        /\ last'.ret \notin {errorNotConnected, "panic"})
       => (/\ last'.ret = "nil"
           /\ store' = store \ WithId(last'.in[1]))]_vars

\* C26: when two or more documents match the query and the server answers,
\* UpdateWithQuery changes one of them and UpdateWithQueryAll changes every
\* one of them (the value set differs from the one they hold).
C26_OneAgainstAll ==
    [][(/\ UpdateByQuery
        /\ PingOK
        /\ last'.ret = "nil"
        /\ last'.in[1] # last'.in[2]
        /\ Cardinality(Matching(Filter("data", last'.in[1]))) >= 2)
       => Cardinality(store \ store') =
             IF last'.op = "UpdateWithQuery" THEN 1
             ELSE Cardinality(Matching(Filter("data", last'.in[1])))]_vars

\* C27: InsertWithCheckIsDup(coll, d1, ..., dn) hands the driver exactly the
\* documents d1, ..., dn, as Insert does, and returns the error Insert
\* returns for them (the error of toSlice included).
C27_CheckIsDupInsertsAsInsert ==
    (/\ gen = "mongo"
     /\ last.op = "InsertWithCheckIsDup"
     /\ Len(last.in) = 1)
    => /\ \A i \in 1..Len(last.calls) :
              last.calls[i].fn = "InsertMany" => last.calls[i].a = last.in[1].elems
       /\ (toSlice(last.in[1]).err # "nil" => last.ret = toSlice(last.in[1]).err)

\* C28: FindByID returns true only when the driver found the document and
\* decoded it into v: it returns false when the handle is not connected,
\* when no document has the identifier, and when the driver call fails.
C28_FindByIDTrueOnlyWhenFound ==
    (last.op = "FindByID" /\ last.ret = "true")
    => \E i \in 1..Len(last.calls) :
          last.calls[i].fn \in {"FindOne", "Find.One"} /\ last.calls[i].err = "nil"

\* C29: on every handle that reports connected, however it was obtained, the
\* per-query timeout is 30 seconds or the argument of a SetMaxTimeMS call.
C29_QueryTimeoutOnConnectedHandle ==
    (~ProbePanics /\ IsConnected) => maxTimeMS \in {30 * Second} \cup Timeouts

====
